---- MODULE Spec2Model ----
(***************************************************************************)
(* Model of the pyc handler of add-determinism (src/handlers/pyc.rs):      *)
(* the candidate-selection predicate filter, the header check and version  *)
(* resolution of verify_python3_pyc, and the pipeline of process, which    *)
(* drives the MarshalParser collaborator and commits its derived artifact. *)
(*                                                                         *)
(* Text is modelled as sequences of one-character strings, Option<T> as a  *)
(* sequence of length at most one (<<>> is None, <<x>> is Some(x)).        *)
(***************************************************************************)
EXTENDS Integers, Sequences, FiniteSets, TLC

VARIABLES
    fs,           \* directory: path -> inode number, 0 when no entry
    disk,         \* inode number -> content
    pc,           \* per invocation: position in process
    input_path,   \* per invocation: the path process was called with
    input,        \* per invocation: inode held open by the reader, 0 when none
    buf,          \* per invocation: the header bytes read
    version,      \* per invocation: Option of the resolved label
    verdict,      \* per invocation: Option of verify_python3_pyc's return
    parsed,       \* per invocation: content the collaborator parsed
    wfile,        \* per invocation: inode the collaborator writes, 0 when none
    output_path,  \* per invocation: io.output_path (Option of a path)
    orig,         \* per invocation: content at input_path when the run began
    trace,        \* per invocation: the steps of the current run, in order
    results,      \* per invocation: returns of the completed runs
    first,        \* the directory's contents before any run: path -> content
    fpath,        \* filter: the path under test
    fres          \* filter: Option of the returned Result<bool>

vars == <<fs, disk, pc, input_path, input, buf, version, verdict, parsed,
          wfile, output_path, orig, trace, results, first, fpath, fres>>

-----------------------------------------------------------------------------
(* Bounds *)

\* longest path enumerated for filter
MaxPathLen == 6
\* calls of process on one path, one after the other
MaxRuns == 2

-----------------------------------------------------------------------------
(* Option and Result *)

None == <<>>
Some(x) == <<x>>

Ok(b) == [ok |-> TRUE, val |-> b, err |-> "none"]
Err(e) == [ok |-> FALSE, val |-> FALSE, err |-> e]

Last(s) == s[Len(s)]

-----------------------------------------------------------------------------
(* std::path::Path on Unix, as far as filter and process use it *)

\* Components drops repeated separators, a trailing separator and "."
\* components: the path cut back to the end of its last component.
RECURSIVE TrimPath(_)
TrimPath(p) ==
    IF p = <<>> THEN p
    ELSE IF Last(p) = "/" THEN TrimPath(SubSeq(p, 1, Len(p) - 1))
    ELSE IF Last(p) = "." /\ (Len(p) = 1 \/ p[Len(p) - 1] = "/")
         THEN TrimPath(SubSeq(p, 1, Len(p) - 1))
    ELSE p

\* index of the last separator of p, 0 when there is none
LastIndexOf(p, ch) ==
    LET at == {i \in 1..Len(p) : p[i] = ch}
    IN IF at = {} THEN 0 ELSE CHOOSE i \in at : \A j \in at : j <= i

\* Path::file_name: the last component when it is a normal one
file_name(p) ==
    LET t == TrimPath(p)
        name == SubSeq(t, LastIndexOf(t, "/") + 1, Len(t))
    IN IF name = <<>> \/ name = <<".", ".">> THEN None ELSE Some(name)

\* rsplit_file_at_dot: <<before, after>>, both Options
rsplit_file_at_dot(file) ==
    LET dot == LastIndexOf(file, ".")
    IN IF file = <<".", ".">> THEN <<Some(file), None>>
       ELSE IF dot = 0 THEN <<None, Some(file)>>
       ELSE IF dot = 1 THEN <<Some(file), None>>
       ELSE <<Some(SubSeq(file, 1, dot - 1)),
              Some(SubSeq(file, dot + 1, Len(file)))>>

\* Path::extension: before.and(after)
extension(p) ==
    LET f == file_name(p)
    IN IF f = None THEN None
       ELSE LET s == rsplit_file_at_dot(f[1])
            IN IF s[1] = None THEN None ELSE s[2]

\* Path::file_stem: before.or(after)
file_stem(p) ==
    LET f == file_name(p)
    IN IF f = None THEN None
       ELSE LET s == rsplit_file_at_dot(f[1])
            IN IF s[1] # None THEN s[1] ELSE s[2]

\* Path::with_extension: the path up to the end of the stem, then "." ext
with_extension(p, ext) ==
    LET stem == file_stem(p)
        t == TrimPath(p)
        start == LastIndexOf(t, "/")
    IN IF stem = None THEN p
       ELSE SubSeq(t, 1, start + Len(stem[1]))
            \o (IF ext = <<>> THEN <<>> ELSE <<".">> \o ext)

pyc == <<"p", "y", "c">>
fixed_pyc == <<"f", "i", "x", "e", "d", ".", "p", "y", "c">>

\* filter mutated to test the end of the file name, not its extension
filter_suffix(path) ==
    LET f == file_name(path)
    IN Ok(f # None /\ Len(f[1]) >= 3
          /\ SubSeq(f[1], Len(f[1]) - 2, Len(f[1])) = pyc)

\* pub fn filter(path: &Path) -> Result<bool>
filter(path) == Ok(extension(path) # None /\ extension(path)[1] = pyc)

-----------------------------------------------------------------------------
(* verify_python3_pyc: the version labels and the arms of `match val` *)

V1_5 == <<"1", ".", "5">>
V1_6 == <<"1", ".", "6">>
V2_0 == <<"2", ".", "0">>
V2_1 == <<"2", ".", "1">>
V2_2 == <<"2", ".", "2">>
V2_3 == <<"2", ".", "3">>
V2_4 == <<"2", ".", "4">>
V2_5 == <<"2", ".", "5">>
V2_6 == <<"2", ".", "6">>
V2_7 == <<"2", ".", "7">>
V3_0 == <<"3", ".", "0">>
V3_1 == <<"3", ".", "1">>
V3_2 == <<"3", ".", "2">>
V3_3 == <<"3", ".", "3">>
V3_4 == <<"3", ".", "4">>
V3_5 == <<"3", ".", "5">>
V3_6 == <<"3", ".", "6">>
V3_7 == <<"3", ".", "7">>
V3_8 == <<"3", ".", "8">>
V3_9 == <<"3", ".", "9">>
V3_10 == <<"3", ".", "1", "0">>
V3_11 == <<"3", ".", "1", "1">>
V3_12 == <<"3", ".", "1", "2">>
V3_13 == <<"3", ".", "1", "3">>
V3_14plus == <<"3", ".", "1", "4", "+">>

Arm(lo, hi, label) == [lo |-> lo, hi |-> hi, label |-> label]

\* the exact arms, an or-pattern written as one arm per alternative
LegacyArms == <<
    Arm(20121, 20121, V1_5),
    Arm(50428, 50428, V1_6),
    Arm(50823, 50823, V2_0),
    Arm(60202, 60202, V2_1),
    Arm(60717, 60717, V2_2),
    Arm(62011, 62011, V2_3),
    Arm(62021, 62021, V2_3),
    Arm(62041, 62041, V2_4),
    Arm(62051, 62051, V2_4),
    Arm(62061, 62061, V2_4),
    Arm(62071, 62071, V2_5),
    Arm(62081, 62081, V2_5),
    Arm(62091, 62091, V2_5),
    Arm(62092, 62092, V2_5),
    Arm(62101, 62101, V2_5),
    Arm(62111, 62111, V2_5),
    Arm(62121, 62121, V2_5),
    Arm(62131, 62131, V2_5),
    Arm(62151, 62151, V2_6),
    Arm(62161, 62161, V2_6),
    Arm(62171, 62171, V2_7),
    Arm(62181, 62181, V2_7),
    Arm(62191, 62191, V2_7),
    Arm(62201, 62201, V2_7),
    Arm(62211, 62211, V2_7)
>>

\* the range arms but the last, in the order of the source
Python3Arms == <<
    Arm(3000, 3131, V3_0),
    Arm(3000, 3151, V3_1),
    Arm(3000, 3160, V3_1),
    Arm(3000, 3180, V3_2),
    Arm(3000, 3230, V3_3),
    Arm(3000, 3310, V3_4),
    Arm(3000, 3351, V3_5),
    Arm(3000, 3379, V3_6),
    Arm(3000, 3394, V3_7),
    Arm(3000, 3413, V3_8),
    Arm(3000, 3425, V3_9),
    Arm(3000, 3439, V3_10),
    Arm(3000, 3495, V3_11),
    Arm(3000, 3531, V3_12),
    Arm(3000, 3600, V3_13)
>>

\* 3600..=4000 => Some("3.14+")
FutureArm == Arm(3600, 4000, V3_14plus)

\* the table with the last two range arms in the other order
VersionArmsFutureFirst == LegacyArms \o SubSeq(Python3Arms, 1, 14)
                          \o <<FutureArm, Python3Arms[15]>>

\* the table without the arm for 62092
VersionArmsNo62092 == SubSeq(LegacyArms, 1, 13) \o SubSeq(LegacyArms, 15, 25)
                      \o Python3Arms \o <<FutureArm>>

\* the table with the last range made disjoint from the one before it
VersionArmsDisjointFuture == LegacyArms \o Python3Arms
                             \o <<Arm(3601, 4000, V3_14plus)>>

\* the arms of `match val`, in the order of the source
VersionArms == LegacyArms \o Python3Arms \o <<FutureArm>>

\* let version = match val { ... }: the first arm that matches, else None
match_version(val) ==
    LET hit == {i \in DOMAIN VersionArms :
                    VersionArms[i].lo <= val /\ val <= VersionArms[i].hi}
    IN IF hit = {} THEN None
       ELSE Some(VersionArms[CHOOSE i \in hit : \A j \in hit : i <= j].label)

\* str::starts_with(char)
starts_with(v, ch) == Len(v) >= 1 /\ v[1] = ch

\* the trailer test looking at byte 2 alone
trailer_ok_byte2(b) == b[3] = 13

\* !(buf[2..] != [0x0D, 0x0A])
trailer_ok(b) == SubSeq(b, 3, 4) = <<13, 10>>

\* let val = ((buf[1] as u32) << 8) + (buf[0] as u32); two bytes give at
\* most 65535, so the u32 never wraps
version_code(b) == (b[2] * 256) + b[1]

\* the gate accepting the labels of the 3 series only
eligible_only3(v) == starts_with(v, "3")

\* match version { Some(v) if v.starts_with('2') => Ok(false), Some(v) => Ok(true) }
eligible(v) == ~starts_with(v, "2")

NotAPycFile == "not a pyc file, wrong magic"
UnknownPycVersion == "not a pyc file, unknown version"
TruncatedInput == "failed to fill whole buffer"
IoError == "io error"
CollaboratorError == "python error"

\* pub fn verify_python3_pyc(input_path, buf) -> Result<bool>, with the
\* label it resolved
verify_python3_pyc(b) ==
    IF ~trailer_ok(b)
    THEN [version |-> None, ret |-> Err(NotAPycFile)]
    ELSE LET v == match_version(version_code(b))
         IN IF v = None
            THEN [version |-> None, ret |-> Err(UnknownPycVersion)]
            ELSE [version |-> v, ret |-> Ok(eligible(v[1]))]

-----------------------------------------------------------------------------
(* Files *)

Procs == {1, 2}

\* inode numbers; more than the files and open handles of two invocations
NumInodes == 6
Inos == 1..NumInodes

NoFile == [buf |-> <<>>, body |-> "absent", id |-> 0]
\* a file just opened with mode "wb": truncated to nothing
Empty == [buf |-> <<>>, body |-> "empty", id |-> 0]

FooPyc == <<"f", "o", "o", ".", "p", "y", "c">>
FooFixedPyc == <<"f", "o", "o", ".", "f", "i", "x", "e", "d", ".", "p", "y", "c">>
BarOptPyc == <<"d", "/", "b", ".", "o", "p", "t", "-", "2", ".", "p", "y", "c">>
NoPath == <<>>

Candidates == {FooPyc, FooFixedPyc, BarOptPyc}

\* clear_unused_ref_flags(overwrite=True): the result goes to the input
fix_target_overwrite(path) == path

\* clear_unused_ref_flags(overwrite=False): "MarshalParser creates a file
\* input.fixed.pyc if changes were made"
fix_target(path) == with_extension(path, fixed_pyc)

\* the output path set to the input path
output_path_same(path) == path

\* io.output_path = Some(io.input_path.with_extension("fixed.pyc"))
output_path_of(path) == with_extension(path, fixed_pyc)

AllPaths == Candidates
            \cup {fix_target(q) : q \in Candidates}
            \cup {output_path_of(q) : q \in Candidates}

\* what the collaborator leaves: the same header, the flags cleared
Normalize(c) == [c EXCEPT !.body = "norm"]

Range(f) == {f[x] : x \in DOMAIN f}

ContentOf(dir, dsk, path) == IF dir[path] = 0 THEN NoFile ELSE dsk[dir[path]]
ContentAt(path) == ContentOf(fs, disk, path)

Referenced(dir, rd, wr) == (Range(dir) \cup Range(rd) \cup Range(wr)) \ {0}

\* an inode nobody names or holds open is gone
Reclaim(dir, dsk, rd, wr) ==
    [i \in Inos |-> IF i \in Referenced(dir, rd, wr) THEN dsk[i] ELSE NoFile]

FreeInos == Inos \ Referenced(fs, input, wfile)
NewIno == CHOOSE i \in FreeInos : \A j \in FreeInos : i <= j

-----------------------------------------------------------------------------
(* process: one action per statement; the collaborator in three steps *)

RunVars == <<pc, input, buf, version, verdict, parsed, wfile, output_path,
             orig, trace, results>>
FilterVars == <<fpath, fres>>

\* process returns r: its handles are dropped
Return(p, r, step) ==
    /\ pc' = [pc EXCEPT ![p] = "idle"]
    /\ results' = [results EXCEPT ![p] = Append(@, r)]
    /\ trace' = [trace EXCEPT ![p] = Append(@, step)]
    /\ input' = [input EXCEPT ![p] = 0]
    /\ wfile' = [wfile EXCEPT ![p] = 0]

Goto(p, where, step) ==
    /\ pc' = [pc EXCEPT ![p] = where]
    /\ trace' = [trace EXCEPT ![p] = Append(@, step)]
    /\ UNCHANGED results

\* the caller runs process(options, input_path), at most limit times
Invoke(p, limit) ==
    /\ pc[p] = "idle"
    /\ input_path[p] # NoPath
    /\ Len(results[p]) < limit
    /\ pc' = [pc EXCEPT ![p] = "start"]
    /\ buf' = [buf EXCEPT ![p] = <<>>]
    /\ version' = [version EXCEPT ![p] = None]
    /\ verdict' = [verdict EXCEPT ![p] = None]
    /\ parsed' = [parsed EXCEPT ![p] = NoFile]
    /\ output_path' = [output_path EXCEPT ![p] = None]
    /\ orig' = [orig EXCEPT ![p] = ContentAt(input_path[p])]
    /\ trace' = [trace EXCEPT ![p] = <<>>]
    /\ UNCHANGED <<fs, disk, input, wfile, results, input_path, first, FilterVars>>

\* let (mut io, mut input) = InputOutputHelper::open(input_path)?
Open(p) ==
    /\ pc[p] = "start"
    /\ IF fs[input_path[p]] = 0
       THEN /\ Return(p, Err(IoError), "open")
            /\ disk' = Reclaim(fs, disk, input', wfile')
       ELSE /\ input' = [input EXCEPT ![p] = fs[input_path[p]]]
            /\ Goto(p, "read", "open")
            /\ UNCHANGED <<disk, wfile>>
    /\ UNCHANGED <<fs, buf, version, verdict, parsed, output_path, orig,
                   input_path, first, FilterVars>>

\* let mut buf = [0; 4]; input.read_exact(&mut buf)?
ReadExact(p) ==
    /\ pc[p] = "read"
    /\ LET c == disk[input[p]]
       IN IF Len(c.buf) < 4
          THEN /\ Return(p, Err(TruncatedInput), "read_exact")
               /\ disk' = Reclaim(fs, disk, input', wfile')
               /\ UNCHANGED buf
          ELSE /\ buf' = [buf EXCEPT ![p] = SubSeq(c.buf, 1, 4)]
               /\ Goto(p, "verify", "read_exact")
               /\ UNCHANGED <<disk, input, wfile>>
    /\ UNCHANGED <<fs, version, verdict, parsed, output_path, orig,
                   input_path, first, FilterVars>>

\* the call without the early return: only an error ends the run here
VerifyNoEarlyReturn(p) ==
    /\ pc[p] = "verify"
    /\ LET r == verify_python3_pyc(buf[p])
       IN /\ version' = [version EXCEPT ![p] = r.version]
          /\ verdict' = [verdict EXCEPT ![p] = Some(r.ret)]
          /\ IF ~r.ret.ok
             THEN /\ Return(p, r.ret, "verify")
                  /\ disk' = Reclaim(fs, disk, input', wfile')
             ELSE /\ Goto(p, "transform", "verify")
                  /\ UNCHANGED <<disk, input, wfile>>
    /\ UNCHANGED <<fs, buf, parsed, output_path, orig, input_path, first,
                   FilterVars>>

\* if !verify_python3_pyc(io.input_path, &buf)? { return Ok(false); }
Verify(p) ==
    /\ pc[p] = "verify"
    /\ LET r == verify_python3_pyc(buf[p])
       IN /\ version' = [version EXCEPT ![p] = r.version]
          /\ verdict' = [verdict EXCEPT ![p] = Some(r.ret)]
          /\ IF ~r.ret.ok
             THEN /\ Return(p, r.ret, "verify")
                  /\ disk' = Reclaim(fs, disk, input', wfile')
             ELSE IF ~r.ret.val
             THEN /\ Return(p, Ok(FALSE), "verify")
                  /\ disk' = Reclaim(fs, disk, input', wfile')
             ELSE /\ Goto(p, "transform", "verify")
                  /\ UNCHANGED <<disk, input, wfile>>
    /\ UNCHANGED <<fs, buf, parsed, output_path, orig, input_path, first,
                   FilterVars>>

\* fun.call1(py, (path,)): MarshalParser(Path(file)) reads the file at the
\* path and parser.parse() accepts it
FixParse(p) ==
    /\ pc[p] = "transform"
    /\ ContentAt(input_path[p]).body \in {"raw", "norm"}
    /\ parsed' = [parsed EXCEPT ![p] = ContentAt(input_path[p])]
    /\ Goto(p, "fix_clear", "fix")
    /\ UNCHANGED <<fs, disk, input, buf, version, verdict, wfile, output_path,
                   orig, input_path, first, FilterVars>>

\* the call raises before anything is written; the ? returns the error
FixFail(p) ==
    /\ pc[p] = "transform"
    /\ Return(p, Err(CollaboratorError), "fix")
    /\ disk' = Reclaim(fs, disk, input', wfile')
    /\ UNCHANGED <<fs, buf, version, verdict, parsed, output_path, orig,
                   input_path, first, FilterVars>>

\* clear_unused_ref_flags finds nothing to clear: no file is written
FixNoChange(p) ==
    /\ pc[p] = "fix_clear"
    /\ parsed[p].body = "norm"
    /\ Goto(p, "set_output", "fix_returned")
    /\ UNCHANGED <<fs, disk, input, buf, version, verdict, parsed, wfile,
                   output_path, orig, input_path, first, FilterVars>>

\* clear_unused_ref_flags opens the derived file for writing
FixCreate(p) ==
    /\ pc[p] = "fix_clear"
    /\ parsed[p].body = "raw"
    /\ LET target == fix_target(input_path[p])
       IN IF fs[target] = 0
          THEN /\ FreeInos # {}
               /\ fs' = [fs EXCEPT ![target] = NewIno]
               /\ disk' = [disk EXCEPT ![NewIno] = Empty]
               /\ wfile' = [wfile EXCEPT ![p] = NewIno]
          ELSE /\ fs' = fs
               /\ disk' = [disk EXCEPT ![fs[target]] = Empty]
               /\ wfile' = [wfile EXCEPT ![p] = fs[target]]
    /\ Goto(p, "fix_writing", "fix_open_output")
    /\ UNCHANGED <<input, buf, version, verdict, parsed, output_path, orig,
                   input_path, first, FilterVars>>

\* the normalized bytes are written and the call returns
FixWrite(p) ==
    /\ pc[p] = "fix_writing"
    /\ disk' = [disk EXCEPT ![wfile[p]] = Normalize(parsed[p])]
    /\ wfile' = [wfile EXCEPT ![p] = 0]
    /\ Goto(p, "set_output", "fix_returned")
    /\ UNCHANGED <<fs, input, buf, version, verdict, parsed, output_path,
                   orig, input_path, first, FilterVars>>

\* the call raises after the derived file was opened; the ? returns the error
FixWriteFail(p) ==
    /\ pc[p] = "fix_writing"
    /\ Return(p, Err(CollaboratorError), "fix_failed")
    /\ disk' = Reclaim(fs, disk, input', wfile')
    /\ UNCHANGED <<fs, buf, version, verdict, parsed, output_path, orig,
                   input_path, first, FilterVars>>

\* io.output_path = Some(io.input_path.with_extension("fixed.pyc"))
SetOutputPath(p) ==
    /\ pc[p] = "set_output"
    /\ output_path' = [output_path EXCEPT ![p] = Some(output_path_of(input_path[p]))]
    /\ Goto(p, "finalize", "set_output_path")
    /\ UNCHANGED <<fs, disk, input, buf, version, verdict, parsed, wfile,
                   orig, input_path, first, FilterVars>>

\* io.finalize(true), a file at the output path: it replaces the input
FinalizeCommit(p) ==
    /\ pc[p] = "finalize"
    /\ fs[output_path[p][1]] # 0
    /\ Return(p, Ok(TRUE), "finalize")
    /\ fs' = IF output_path[p][1] = input_path[p] THEN fs
             ELSE [fs EXCEPT ![input_path[p]] = fs[output_path[p][1]],
                             ![output_path[p][1]] = 0]
    /\ disk' = Reclaim(fs', disk, input', wfile')
    /\ UNCHANGED <<buf, version, verdict, parsed, output_path, orig,
                   input_path, first, FilterVars>>

\* io.finalize(true), no file at the output path: nothing was modified
FinalizeUnchanged(p) ==
    /\ pc[p] = "finalize"
    /\ fs[output_path[p][1]] = 0
    /\ Return(p, Ok(FALSE), "finalize")
    /\ disk' = Reclaim(fs, disk, input', wfile')
    /\ UNCHANGED <<fs, buf, version, verdict, parsed, output_path, orig,
                   input_path, first, FilterVars>>

\* io.finalize(true) fails on an I/O error: nothing is replaced
FinalizeFail(p) ==
    /\ pc[p] = "finalize"
    /\ Return(p, Err(IoError), "finalize")
    /\ disk' = Reclaim(fs, disk, input', wfile')
    /\ UNCHANGED <<fs, buf, version, verdict, parsed, output_path, orig,
                   input_path, first, FilterVars>>

\* the caller asks filter(path)
FilterCall ==
    /\ fres = None
    /\ fres' = Some(filter(fpath))
    /\ UNCHANGED <<fs, disk, RunVars, input_path, first, fpath>>

-----------------------------------------------------------------------------
(* Initial states *)

Byte == 0..255
GoodTrailer == <<13, 10>>
SampleTrailers == {GoodTrailer, <<13, 13>>, <<0, 10>>}
SampleCodes == {2999, 3000, 3413, 3600, 4000, 4001, 20121, 50428, 62211}

Header(code, trailer) == <<code % 256, code \div 256>> \o trailer

File(header, body, id) == [buf |-> header, body |-> body, id |-> id]

\* the files process is run on: whole headers, and two files too short
SampleFiles ==
    {File(Header(c, t), b, 1) :
        c \in SampleCodes, t \in SampleTrailers, b \in {"raw", "norm"}}
    \cup {File(<<184, 11, 13>>, "none", 1), File(<<>>, "none", 1)}

PairFiles(id) ==
    {File(Header(3413, GoodTrailer), "raw", id),
     File(Header(3413, GoodTrailer), "norm", id),
     File(Header(62211, GoodTrailer), "raw", id)}

PathPairs == {<<FooPyc, FooFixedPyc>>, <<FooPyc, BarOptPyc>>,
              <<BarOptPyc, FooFixedPyc>>}

Letters == {"/", ".", "p", "y", "c"}
\* the paths of tests::filter_a, and two more
TestFoobarPyc ==
    <<"/", "s", "o", "m", "e", "/", "p", "a", "t", "h", "/", "f", "o", "o",
    "b", "a", "r", ".", "p", "y", "c">>
TestFoobarApyc ==
    <<"/", "s", "o", "m", "e", "/", "p", "a", "t", "h", "/", "f", "o", "o",
    "b", "a", "r", ".", "a", "p", "y", "c">>
TestFoobarOpt2Pyc ==
    <<"/", "s", "o", "m", "e", "/", "p", "a", "t", "h", "/", "f", "o", "o",
    "b", "a", "r", ".", "o", "p", "t", "-", "2", ".", "p", "y", "c">>
TestFoobar ==
    <<"/", "s", "o", "m", "e", "/", "p", "a", "t", "h", "/", "f", "o", "o",
    "b", "a", "r">>
TestPyc ==
    <<"/", "s", "o", "m", "e", "/", "p", "a", "t", "h", "/", "p", "y", "c">>
TestPycPyc ==
    <<"/", "s", "o", "m", "e", "/", "p", "a", "t", "h", "/", "p", "y", "c",
    "_", "p", "y", "c">>
TestRoot ==
    <<"/">>
UpperCasePyc ==
    <<"/", "s", "o", "m", "e", "/", "p", "a", "t", "h", "/", "f", "o", "o",
    "b", "a", "r", ".", "P", "Y", "C">>
HiddenPyc ==
    <<"/", "s", "o", "m", "e", "/", "p", "a", "t", "h", "/", ".", "p", "y",
    "c">>

TestPaths == {TestFoobarPyc, TestFoobarApyc, TestFoobarOpt2Pyc, TestFoobar,
              TestPyc, TestPycPyc, TestRoot, UpperCasePyc, HiddenPyc}

FilterPaths == UNION {[1..n -> Letters] : n \in 0..MaxPathLen} \cup TestPaths

NoRun ==
    /\ pc = [p \in Procs |-> "idle"]
    /\ input = [p \in Procs |-> 0]
    /\ buf = [p \in Procs |-> <<>>]
    /\ version = [p \in Procs |-> None]
    /\ verdict = [p \in Procs |-> None]
    /\ parsed = [p \in Procs |-> NoFile]
    /\ wfile = [p \in Procs |-> 0]
    /\ output_path = [p \in Procs |-> None]
    /\ orig = [p \in Procs |-> NoFile]
    /\ trace = [p \in Procs |-> <<>>]
    /\ results = [p \in Procs |-> <<>>]

NoFilter ==
    /\ fpath = NoPath
    /\ fres = None

\* one file, or none, at the path process is called with
Init ==
    \E path \in Candidates, c \in SampleFiles \cup {NoFile} :
        /\ fs = [q \in AllPaths |-> IF q = path /\ c # NoFile THEN 1 ELSE 0]
        /\ disk = [i \in Inos |-> IF i = 1 THEN c ELSE NoFile]
        /\ input_path = [p \in Procs |-> IF p = 1 THEN path ELSE NoPath]
        /\ first = [q \in AllPaths |-> IF q = path THEN c ELSE NoFile]
        /\ NoRun
        /\ NoFilter

Next ==
    \/ Invoke(1, MaxRuns)
    \/ Open(1)
    \/ ReadExact(1)
    \/ Verify(1)
    \/ FixParse(1)
    \/ FixFail(1)
    \/ FixNoChange(1)
    \/ FixCreate(1)
    \/ FixWrite(1)
    \/ FixWriteFail(1)
    \/ SetOutputPath(1)
    \/ FinalizeCommit(1)
    \/ FinalizeUnchanged(1)
    \/ FinalizeFail(1)

Spec == Init /\ [][Next]_vars

\* process has read a header: every value of bytes 0 and 1
InitVerify ==
    \E b0 \in Byte, b1 \in Byte, t \in SampleTrailers :
        LET c == File(<<b0, b1>> \o t, "raw", 1)
        IN /\ fs = [q \in AllPaths |-> IF q = FooPyc THEN 1 ELSE 0]
           /\ disk = [i \in Inos |-> IF i = 1 THEN c ELSE NoFile]
           /\ input_path = [p \in Procs |-> IF p = 1 THEN FooPyc ELSE NoPath]
           /\ first = [q \in AllPaths |-> IF q = FooPyc THEN c ELSE NoFile]
           /\ pc = [p \in Procs |-> IF p = 1 THEN "verify" ELSE "idle"]
           /\ input = [p \in Procs |-> IF p = 1 THEN 1 ELSE 0]
           /\ buf = [p \in Procs |-> IF p = 1 THEN c.buf ELSE <<>>]
           /\ version = [p \in Procs |-> None]
           /\ verdict = [p \in Procs |-> None]
           /\ parsed = [p \in Procs |-> NoFile]
           /\ wfile = [p \in Procs |-> 0]
           /\ output_path = [p \in Procs |-> None]
           /\ orig = [p \in Procs |-> IF p = 1 THEN c ELSE NoFile]
           /\ trace = [p \in Procs |-> IF p = 1 THEN <<"open", "read_exact">> ELSE <<>>]
           /\ results = [p \in Procs |-> <<>>]
           /\ NoFilter

NextVerify == Verify(1)

SpecVerify == InitVerify /\ [][NextVerify]_vars

InitFilter ==
    /\ fpath \in FilterPaths
    /\ fres = None
    /\ fs = [q \in AllPaths |-> 0]
    /\ disk = [i \in Inos |-> NoFile]
    /\ input_path = [p \in Procs |-> NoPath]
    /\ first = [q \in AllPaths |-> NoFile]
    /\ NoRun

NextFilter == FilterCall

SpecFilter == InitFilter /\ [][NextFilter]_vars

\* two files at two candidate paths, one invocation on each
InitPair ==
    \E pair \in PathPairs, c1 \in PairFiles(1), c2 \in PairFiles(2) :
        /\ fs = [q \in AllPaths |-> IF q = pair[1] THEN 1
                                    ELSE IF q = pair[2] THEN 2 ELSE 0]
        /\ disk = [i \in Inos |-> IF i = 1 THEN c1
                                  ELSE IF i = 2 THEN c2 ELSE NoFile]
        /\ input_path = [p \in Procs |-> pair[p]]
        /\ first = [q \in AllPaths |-> IF q = pair[1] THEN c1
                                       ELSE IF q = pair[2] THEN c2 ELSE NoFile]
        /\ NoRun
        /\ NoFilter

NextPair ==
    \E p \in Procs :
        \/ Invoke(p, 1)
        \/ Open(p)
        \/ ReadExact(p)
        \/ Verify(p)
        \/ FixParse(p)
        \/ FixFail(p)
        \/ FixNoChange(p)
        \/ FixCreate(p)
        \/ FixWrite(p)
        \/ FixWriteFail(p)
        \/ SetOutputPath(p)
        \/ FinalizeCommit(p)
        \/ FinalizeUnchanged(p)
        \/ FinalizeFail(p)

SpecPair == InitPair /\ [][NextPair]_vars

-----------------------------------------------------------------------------
(* Properties of verify_python3_pyc, checked under SpecVerify *)

\* verify_python3_pyc has returned in invocation p
Verified(p) == verdict[p] # None
ValidTrailer(p) == Len(buf[p]) = 4 /\ buf[p][3] = 13 /\ buf[p][4] = 10
Code(p) == buf[p][1] + 256 * buf[p][2]

\* the ranges as the specification lists them: <<low, high, label>>
ListedRanges == <<
    <<3000, 3131, V3_0>>, <<3000, 3151, V3_1>>, <<3000, 3160, V3_1>>,
    <<3000, 3180, V3_2>>, <<3000, 3230, V3_3>>, <<3000, 3310, V3_4>>,
    <<3000, 3351, V3_5>>, <<3000, 3379, V3_6>>, <<3000, 3394, V3_7>>,
    <<3000, 3413, V3_8>>, <<3000, 3425, V3_9>>, <<3000, 3439, V3_10>>,
    <<3000, 3495, V3_11>>, <<3000, 3531, V3_12>>, <<3000, 3600, V3_13>>,
    <<3600, 4000, V3_14plus>> >>

\* the label of the first listed range, from the k-th on, that contains c
RECURSIVE FirstListed(_, _)
FirstListed(c, k) ==
    IF k > Len(ListedRanges) THEN None
    ELSE IF ListedRanges[k][1] <= c /\ c <= ListedRanges[k][2]
         THEN Some(ListedRanges[k][3])
    ELSE FirstListed(c, k + 1)

DocumentedLegacy == {
    <<20121, V1_5>>, <<50428, V1_6>>, <<50823, V2_0>>, <<60202, V2_1>>,
    <<60717, V2_2>>, <<62011, V2_3>>, <<62021, V2_3>>,
    <<62041, V2_4>>, <<62051, V2_4>>, <<62061, V2_4>>,
    <<62071, V2_5>>, <<62081, V2_5>>, <<62091, V2_5>>, <<62092, V2_5>>,
    <<62101, V2_5>>, <<62111, V2_5>>, <<62121, V2_5>>, <<62131, V2_5>>,
    <<62151, V2_6>>, <<62161, V2_6>>,
    <<62171, V2_7>>, <<62181, V2_7>>, <<62191, V2_7>>, <<62201, V2_7>>,
    <<62211, V2_7>> }

\* C2: with a valid trailer, a code outside 3000..4000 resolves to its
\* documented label when it is an exact legacy code, and otherwise
\* verify_python3_pyc fails with UnknownPycVersion and process returns that
\* error, not Ok(false); every code below 3000 is such a code.
C2_LegacyOrUnknown ==
    \A p \in Procs :
        (Verified(p) /\ ValidTrailer(p) /\ Code(p) \notin 3000..4000) =>
            LET doc == {e \in DocumentedLegacy : e[1] = Code(p)}
            IN /\ doc # {} =>
                    /\ \A e \in doc : version[p] = Some(e[2])
                    /\ verdict[p][1].ok
               /\ doc = {} =>
                    /\ version[p] = None
                    /\ verdict[p] = Some(Err(UnknownPycVersion))
                    /\ pc[p] = "idle"
                    /\ results[p] = <<Err(UnknownPycVersion)>>
               /\ Code(p) < 3000 => doc = {}

C2_Witness ==
    /\ Verified(1) /\ ValidTrailer(1) /\ Code(1) = 2999
    /\ results[1] = <<Err(UnknownPycVersion)>>

\* C3: a header whose bytes 2-3 are not {0x0D, 0x0A} fails with NotAPycFile
\* whatever bytes 0-1 are: no label is resolved, verify_python3_pyc returns
\* the error and process returns it, never Ok(false) or Ok(true).
C3_WrongTrailerFails ==
    \A p \in Procs :
        (Verified(p) /\ ~ValidTrailer(p)) =>
            /\ verdict[p] = Some(Err(NotAPycFile))
            /\ version[p] = None
            /\ pc[p] = "idle"
            /\ results[p] = <<Err(NotAPycFile)>>

C3_Witness ==
    /\ Verified(1) /\ ~ValidTrailer(1) /\ Code(1) = 62211
    /\ results[1] = <<Err(NotAPycFile)>>

Labels2 == {V2_0, V2_1, V2_2, V2_3, V2_4, V2_5, V2_6, V2_7}
Labels3 == {V3_0, V3_1, V3_2, V3_3, V3_4, V3_5, V3_6, V3_7, V3_8, V3_9,
            V3_10, V3_11, V3_12, V3_13, V3_14plus}

\* C4: the gate is false for every label "2.0" .. "2.7" and true for every
\* label "3.0" .. "3.13" and "3.14+"; with a valid trailer
\* verify_python3_pyc returns Ok(false) exactly when the resolved label
\* begins with '2'.
C4_EligibilityGate ==
    /\ \A v \in Labels2 : ~eligible(v)
    /\ \A v \in Labels3 : eligible(v)
    /\ \A p \in Procs :
        (Verified(p) /\ ValidTrailer(p)) =>
            /\ (version[p] # None /\ version[p][1][1] = "3")
                    => verdict[p] = Some(Ok(TRUE))
            /\ (verdict[p] = Some(Ok(FALSE)))
                    <=> (version[p] # None /\ version[p][1][1] = "2")

C4_Witness ==
    /\ Verified(1) /\ ValidTrailer(1)
    /\ version[1] = Some(V2_7)
    /\ verdict[1] = Some(Ok(FALSE))

\* the other policy over the same table: the narrowest arm that contains
\* val, the earlier one of two equally narrow
narrowest_version(val) ==
    LET hit == {i \in DOMAIN VersionArms :
                    VersionArms[i].lo <= val /\ val <= VersionArms[i].hi}
        width(i) == VersionArms[i].hi - VersionArms[i].lo
        best == {i \in hit : \A j \in hit : width(i) <= width(j)}
    IN IF hit = {} THEN None
       ELSE Some(VersionArms[CHOOSE i \in best : \A j \in best : i <= j].label)

\* C10: first-match resolution and narrowest-range resolution are not
\* equivalent: for the code 3600 the first resolves "3.13" and the second
\* "3.14+".
C10_NarrowestDiffers ==
    \A p \in Procs :
        (Verified(p) /\ ValidTrailer(p) /\ Code(p) = 3600) =>
            /\ version[p] = Some(V3_13)
            /\ narrowest_version(Code(p)) = Some(V3_14plus)
            /\ version[p] # narrowest_version(Code(p))

C10_Witness ==
    /\ Verified(1) /\ ValidTrailer(1) /\ Code(1) = 3600
    /\ version[1] # narrowest_version(3600)

\* the codes on which the two policies differ
DifferingCodes == {c \in 0..65535 : match_version(c) # narrowest_version(c)}

-----------------------------------------------------------------------------
(* Properties of process, checked under Spec *)

Called(p) == input_path[p] # NoPath
Returned(p) == pc[p] = "idle" /\ results[p] # <<>>
Steps(p) == Range(trace[p])

\* C5: a file handed to the collaborator has a resolved label of the 3
\* series: whenever verify_python3_pyc returned Ok(true), or the collaborator
\* was called, the label is one of "3.0" .. "3.13", "3.14+".
C5_OnlyPython3Transformed ==
    \A p \in Procs :
        (verdict[p] = Some(Ok(TRUE)) \/ "fix" \in Steps(p)) =>
            /\ version[p] # None
            /\ version[p][1] \in Labels3

\* C7: the content at the original path is the content the run began with
\* in every state of the run before finalize; a run that returns an error
\* leaves it so; it differs only after finalize returned Ok(true) in a run
\* whose collaborator returned, and it is never a truncated file.
C7_OriginalUntouchedUntilCommit ==
    \A p \in Procs :
        Called(p) =>
            LET now == ContentAt(input_path[p])
            IN /\ pc[p] # "idle" => now = orig[p]
               /\ (Returned(p) /\ ~Last(results[p]).ok) => now = orig[p]
               /\ (Returned(p) /\ now # orig[p]) =>
                    /\ Last(results[p]) = Ok(TRUE)
                    /\ Last(trace[p]) = "finalize"
                    /\ "fix_returned" \in Steps(p)
               /\ now.body # "empty"

\* the collaborator failed after it opened the derived file
C7_Witness ==
    /\ Returned(1)
    /\ Last(results[1]) = Err(CollaboratorError)
    /\ Last(trace[1]) = "fix_failed"
    /\ ContentAt(fix_target(input_path[1])) = Empty
    /\ orig[1].body = "raw"
    /\ ContentAt(input_path[1]) = orig[1]

\* an eligible file the collaborator has nothing to change in
AlreadyNormalized(c) ==
    /\ Len(c.buf) = 4
    /\ verify_python3_pyc(c.buf).ret = Ok(TRUE)
    /\ c.body = "norm"

Count(s, x) == Cardinality({i \in 1..Len(s) : s[i] = x})

\* C11: in every run the collaborator is called at most once, and only
\* after open, read_exact of 4 bytes and verify_python3_pyc returning
\* Ok(true), in this order; a false verdict (a 2.x label) ends the run with
\* Ok(false) right after verify, the output path unset and finalize not
\* called; a failure of open, read_exact or verify_python3_pyc ends the run
\* with an error and the collaborator not called.
C11_PipelineOrder ==
    \A p \in Procs :
        /\ Count(trace[p], "fix") <= 1
        /\ "fix" \in Steps(p) =>
                /\ SubSeq(trace[p], 1, 4) = <<"open", "read_exact", "verify", "fix">>
                /\ Len(buf[p]) = 4
                /\ ValidTrailer(p)
                /\ version[p] # None
                /\ verdict[p] = Some(Ok(TRUE))
        /\ verdict[p] = Some(Ok(FALSE)) =>
                /\ version[p] # None /\ version[p][1][1] = "2"
                /\ pc[p] = "idle"
                /\ Last(results[p]) = Ok(FALSE)
                /\ trace[p] = <<"open", "read_exact", "verify">>
                /\ output_path[p] = None
        /\ (/\ Returned(p)
            /\ \/ Last(trace[p]) \in {"open", "read_exact"}
               \/ (verdict[p] # None /\ ~verdict[p][1].ok)) =>
                /\ ~Last(results[p]).ok
                /\ "fix" \notin Steps(p)
                /\ {"set_output_path", "finalize"} \cap Steps(p) = {}
                /\ output_path[p] = None

\* a 2.7 file was skipped
C11_Witness ==
    /\ Returned(1)
    /\ version[1] = Some(V2_7)
    /\ verdict[1] = Some(Ok(FALSE))
    /\ Last(results[1]) = Ok(FALSE)
    /\ trace[1] = <<"open", "read_exact", "verify">>

-----------------------------------------------------------------------------
(* Properties of filter, checked under SpecFilter *)

DotPyc == <<".", "p", "y", "c">>

\* the file name is longer than ".pyc" and ends with it
EndsWithDotPyc(path) ==
    LET f == file_name(path)
    IN /\ f # None
       /\ Len(f[1]) > 4
       /\ SubSeq(f[1], Len(f[1]) - 3, Len(f[1])) = DotPyc

\* C6: filter never returns an error, and returns true exactly when the
\* last extension of the file name is "pyc": true for foobar.pyc and
\* foobar.opt-2.pyc, false for foobar.apyc, foobar, pyc, pyc_pyc and "/".
C6_FilterByExtension ==
    fres # None =>
        /\ fres[1].ok
        /\ fres[1].val <=> EndsWithDotPyc(fpath)
        /\ fpath \in {TestFoobarPyc, TestFoobarOpt2Pyc} => fres[1].val
        /\ fpath \in {TestFoobarApyc, TestFoobar, TestPyc, TestPycPyc,
                      TestRoot, UpperCasePyc} => ~fres[1].val

C6_Witness ==
    /\ fpath = TestFoobarOpt2Pyc
    /\ fres = Some(Ok(TRUE))

-----------------------------------------------------------------------------
(* Properties of two invocations, checked under SpecPair *)

\* what one invocation alone returns and leaves at its path, for a file c
\* with no other file in the directory
AloneOutcomes(c) ==
    IF c = NoFile THEN {<<Err(IoError), c>>}
    ELSE IF Len(c.buf) < 4 THEN {<<Err(TruncatedInput), c>>}
    ELSE LET r == verify_python3_pyc(c.buf).ret
         IN IF r # Ok(TRUE) THEN {<<r, c>>}
            ELSE {<<Err(CollaboratorError), c>>, <<Err(IoError), c>>}
                 \cup (IF c.body = "raw" THEN {<<Ok(TRUE), Normalize(c)>>}
                       ELSE IF c.body = "norm" THEN {<<Ok(FALSE), c>>}
                       ELSE {})

AsIfAlone(p) ==
    <<results[p][1], ContentAt(input_path[p])>>
        \in AloneOutcomes(first[input_path[p]])

\* under Spec: the first run of the one invocation ends as AloneOutcomes says
AloneOutcomesSound ==
    (pc[1] = "idle" /\ Len(results[1]) = 1) => AsIfAlone(1)

BothReturned == \A p \in Procs : pc[p] = "idle" /\ Len(results[p]) = 1

\* one path is where the collaborator or finalize of the other looks
Colliding ==
    \E p, q \in Procs :
        /\ p # q
        /\ input_path[q] \in {fix_target(input_path[p]),
                              output_path_of(input_path[p])}

\* C9: when two invocations on two distinct candidate paths have both
\* returned, each one's return and the content at its path are what the
\* invocation alone would give, whatever the interleaving; also for foo.pyc
\* and foo.fixed.pyc.
C9_PairIndependent ==
    BothReturned => \A p \in Procs : AsIfAlone(p)

\* the same for the pairs where neither path is the derived path of the other
PairIndependentUnlessColliding ==
    (BothReturned /\ ~Colliding) => \A p \in Procs : AsIfAlone(p)

====
